---- MODULE Spec2Model ----
(***************************************************************************)
(* Model of the friend-relationship system of the wallet server            *)
(* (server/database-postgres.js, the implementation DatabaseFactory        *)
(* always creates, behind the routes of the server's index.js).  The       *)
(* store is the three PostgreSQL tables users, friends and expenses.       *)
(*                                                                         *)
(*   Spec       every request is one action: the route and the whole       *)
(*              ExpenseDatabase method it calls                            *)
(*   SpecClock  the register, request and respond routes while the         *)
(*              clock advances between requests                            *)
(*   SpecStats  the friend routes while users add expenses                 *)
(*   SpecConc   sendFriendRequest split at its awaits into the             *)
(*              statements of its transaction, two callers                 *)
(*   SpecFault  sendFriendRequest and respondToFriendRequest split at      *)
(*              their awaits, where each query may throw                   *)
(*   SpecAuth   authenticateToken in front of the two friend POST routes   *)
(*   SpecStart  startServer: initializeDatabase, its retries, listen;      *)
(*              SpecStartLive adds the fairness of the event loop          *)
(*   SpecSearch searchUsers with its ILIKE pattern and LIMIT               *)
(*   SpecExpense the PUT and DELETE routes of expenses                     *)
(*   SpecPool   the friendship operations as users of the connection pool  *)
(*   SpecTwin   every friend call made on the SQLite store as well         *)
(*                                                                         *)
(* Monetary amounts are DECIMAL(10,2) columns and are kept in cents.       *)
(* uuidv4() is modelled by a counter: the n-th uuid is the number n.       *)
(* CURRENT_TIMESTAMP is the logical clock now, which only Tick advances.   *)
(***************************************************************************)
EXTENDS Integers, FiniteSets, Sequences, TLC

\* ------------------------------------------------------------------ bounds

\* uuids available for rows of the friends table
MaxFriendships == 2
\* The highest value the logical clock reaches
MaxClock == 2
\* rows the expenses table holds at most
MaxExpenses == 5
\* characters a search term has at most
MaxTermLen == 2
\* the highest limit a search is given
MaxLimit == 2
\* the connections of the pool (max of poolConfig, 20 as configured)
PoolSize == 2

\* ------------------------------------------------------------- input sets

\* the two demo users of createSeedData
SeedUsers == {"demo_user", "friend_user"}
\* ids a registration may introduce
NewUsers == {"third_user"}
UserIds == SeedUsers \cup NewUsers
\* the action values a caller may pass to respondToFriendRequest
Actions == {"accept", "reject", "block"}
\* the two concurrent callers of SpecConc
Procs == {"p1", "p2"}
\* what a request to add an expense may carry
Categories == {"Groceries"}
Amounts == {1000}

NoError == "ok"
NULL == "undefined"

VARIABLES
  users,        \* ids of the rows of table users
  friends,      \* committed rows of table friends
  expenses,     \* rows of table expenses
  nextUuid,     \* the next value uuidv4() returns for a friends row
  last,         \* the last completed call: its name, arguments, error, result
  txn,          \* SpecConc, SpecFault: the call each caller is in
  now,          \* the logical clock CURRENT_TIMESTAMP reads
  http,         \* the response to the last HTTP request: status and error
  server,       \* startServer: where it is, the db handle, the attempts made
  req,          \* SpecAuth: the request authenticateToken has last seen
  pool,         \* SpecPool: the call each caller is in, the clients it holds
  sqlite        \* SpecTwin: the friends table of the SQLite store, its last call

vars ==
  <<users, friends, expenses, nextUuid, last, txn, now, http, server, req,
    pool, sqlite>>

\* ------------------------------------------------------------ the tables

\* Faulty variant: the two user columns are filled the wrong way round.
FriendRowSwapped(id, requesterId, addresseeId, status, at) ==
  [id |-> id, requester_id |-> addresseeId, addressee_id |-> requesterId,
   status |-> status, created_at |-> at, updated_at |-> at]

\* a row of table friends inserted at time at: created_at and updated_at
\* both DEFAULT CURRENT_TIMESTAMP
FriendRow(id, requesterId, addresseeId, status, at) ==
  [id |-> id, requester_id |-> requesterId, addressee_id |-> addresseeId,
   status |-> status, created_at |-> at, updated_at |-> at]

ExpenseRow(id, userId, category, amount) ==
  [id |-> id, user_id |-> userId, category |-> category, amount |-> amount]

\* createSeedData: three expenses of the first demo user
SeedExpenses ==
  { ExpenseRow(1, "demo_user", "Food & Dining", 450),
    ExpenseRow(2, "demo_user", "Transportation", 4500),
    ExpenseRow(3, "demo_user", "Groceries", 6789) }

\* a caller of SpecConc or SpecFault that is in no call
IdleTxn ==
  [pc |-> "idle", requesterId |-> NULL, addresseeId |-> NULL,
   requester |-> NULL, id |-> 0, writes |-> {}, error |-> NoError,
   userId |-> NULL, action |-> NULL]

\* retries = 5, the default of initializeDatabase
DefaultRetries == 5

\* initializeDatabase has returned true from its first attempt and the
\* server listens
RunningServer ==
  [pc |-> "listening", retries |-> DefaultRetries, i |-> 0, db |-> TRUE,
   result |-> "true", listening |-> TRUE, attempts |-> 1, failures |-> 0,
   waits |-> 0]

\* a token, as jwt.sign makes it: the payload, the secret it is signed with
\* and whether its expiresIn has passed; NoToken is the empty string
NoToken == [userId |-> NULL, secret |-> NULL, expired |-> FALSE]

\* what a request body may carry
EmptyBody ==
  [userId |-> NULL, requesterId |-> NULL, friendshipId |-> 0, action |-> NULL]

\* no request has come in
IdleReq ==
  [route |-> NULL, header |-> <<>>, body |-> EmptyBody, userId |-> NULL,
   nextCalls |-> 0]

\* the SQLite store after createTables: no friends row, no call made
EmptySqlite ==
  [friends |-> {}, nextUuid |-> 1, last |-> [op |-> "init", error |-> NoError]]

\* the callers of SpecPool
PoolCallers == {"c1", "c2", "c3"}

\* a caller of SpecPool that is in no call and holds no client
IdleCall ==
  [pc |-> "idle", op |-> NULL, held |-> 0, acquired |-> 0, released |-> 0,
   error |-> NoError]

Init ==
  /\ users = SeedUsers
  /\ friends = {}
  /\ expenses = SeedExpenses
  /\ nextUuid = 1
  /\ last = [op |-> "init", error |-> NoError]
  /\ txn = [p \in Procs |-> IdleTxn]
  /\ now = 0
  /\ http = [status |-> 0, error |-> NoError]
  /\ server = RunningServer
  /\ req = IdleReq
  /\ pool = [c \in PoolCallers |-> IdleCall]
  /\ sqlite = EmptySqlite

\* ------------------------------------------------------------ the queries

\* SELECT ... FROM users WHERE id = $1: the row, or undefined
getUserById(us, userId) ==
  IF userId \in us THEN userId ELSE NULL

\* Faulty variant of the duplicate check: only the direction of the new
\* request is looked up.
existingOneDirection(fr, requesterId, addresseeId) ==
  { f \in fr : f.requester_id = requesterId /\ f.addressee_id = addresseeId }

\* SELECT * FROM friends WHERE (requester_id = $1 AND addressee_id = $2)
\*                          OR (requester_id = $2 AND addressee_id = $1)
existingQuery(fr, requesterId, addresseeId) ==
  { f \in fr : \/ (f.requester_id = requesterId /\ f.addressee_id = addresseeId)
               \/ (f.requester_id = addresseeId /\ f.addressee_id = requesterId) }

\* Faulty variant of the lookup of respondToFriendRequest: any user may respond.
findAnyResponder(fr, friendshipId, userId) ==
  { f \in fr : f.id = friendshipId }

\* Guarded variant: only a pending record is found.
findPendingOnly(fr, friendshipId, userId) ==
  { f \in fr : /\ f.id = friendshipId
               /\ f.addressee_id = userId
               /\ f.status = "pending" }

\* SELECT * FROM friends WHERE id = $1 AND addressee_id = $2
findQuery(fr, friendshipId, userId) ==
  { f \in fr : f.id = friendshipId /\ f.addressee_id = userId }

\* Faulty variant of the friendship check of getFriendStats: any status counts.
friendshipAnyStatus(fr, currentUserId, friendId) ==
  { f \in fr : \/ (f.requester_id = currentUserId /\ f.addressee_id = friendId)
               \/ (f.requester_id = friendId /\ f.addressee_id = currentUserId) }

\* SELECT id FROM friends WHERE ((requester_id = $1 AND addressee_id = $2)
\*   OR (requester_id = $2 AND addressee_id = $1)) AND status = 'accepted'
friendshipQuery(fr, currentUserId, friendId) ==
  { f \in fr : /\ \/ (f.requester_id = currentUserId /\ f.addressee_id = friendId)
                  \/ (f.requester_id = friendId /\ f.addressee_id = currentUserId)
               /\ f.status = "accepted" }

UniqueViolation == "duplicate key value violates unique constraint"
ForeignKeyViolation == "insert or update on table violates foreign key constraint"

\* The constraints of table friends an INSERT of row is checked against:
\* PRIMARY KEY (id), UNIQUE(requester_id, addressee_id) and the two FOREIGN
\* KEYs into users.  The message of the error raised, or NoError.
insertQueryError(us, fr, row) ==
  IF \E f \in fr : f.id = row.id
    THEN UniqueViolation
  ELSE IF \E f \in fr : /\ f.requester_id = row.requester_id
                        /\ f.addressee_id = row.addressee_id
    THEN UniqueViolation
  ELSE IF row.requester_id \notin us \/ row.addressee_id \notin us
    THEN ForeignKeyViolation
  ELSE NoError

\* -------------------------------------------------- sendFriendRequest

\* Faulty variant: the self-request check is missing.
sendErrorNoSelfCheck(us, fr, requesterId, addresseeId) ==
  IF getUserById(us, requesterId) = NULL \/ getUserById(us, addresseeId) = NULL
    THEN "User not found"
  ELSE IF existingQuery(fr, requesterId, addresseeId) # {}
    THEN "Friend request already exists"
  ELSE NoError

\* Faulty variant: the users are not looked up.
sendErrorNoUserCheck(us, fr, requesterId, addresseeId) ==
  IF requesterId = addresseeId
    THEN "Cannot send friend request to yourself"
  ELSE IF existingQuery(fr, requesterId, addresseeId) # {}
    THEN "Friend request already exists"
  ELSE NoError

\* Faulty variant: the self-request check comes before the user lookup.
sendErrorSelfCheckFirst(us, fr, requesterId, addresseeId) ==
  IF requesterId = addresseeId
    THEN "Cannot send friend request to yourself"
  ELSE IF getUserById(us, requesterId) = NULL \/ getUserById(us, addresseeId) = NULL
    THEN "User not found"
  ELSE IF existingQuery(fr, requesterId, addresseeId) # {}
    THEN "Friend request already exists"
  ELSE NoError

\* Faulty variant: an existing record of the pair is not looked for.
sendErrorNoExistingCheck(us, fr, requesterId, addresseeId) ==
  IF getUserById(us, requesterId) = NULL \/ getUserById(us, addresseeId) = NULL
    THEN "User not found"
  ELSE IF requesterId = addresseeId
    THEN "Cannot send friend request to yourself"
  ELSE NoError

\* The checks of sendFriendRequest in the order the code makes them: the
\* message of the Error thrown, or NoError when the INSERT is reached.
sendFriendRequestError(us, fr, requesterId, addresseeId) ==
  IF getUserById(us, requesterId) = NULL \/ getUserById(us, addresseeId) = NULL
    THEN "User not found"
  ELSE IF requesterId = addresseeId
    THEN "Cannot send friend request to yourself"
  ELSE IF existingQuery(fr, requesterId, addresseeId) # {}
    THEN "Friend request already exists"
  ELSE NoError

SendResult(requesterId, addresseeId, error, id, status) ==
  [op |-> "sendFriendRequest", requesterId |-> requesterId,
   addresseeId |-> addresseeId, error |-> error, id |-> id, status |-> status]

\* One whole call of sendFriendRequest: BEGIN, the checks, the INSERT and
\* COMMIT, or ROLLBACK and the error rethrown.
SendFriendRequest(requesterId, addresseeId) ==
  LET error == sendFriendRequestError(users, friends, requesterId, addresseeId)
      row == FriendRow(nextUuid, requesterId, addresseeId, "pending", now)
  IN  /\ UNCHANGED <<users, expenses, txn, now, server, req, pool>>
      /\ IF error # NoError
           THEN /\ last' = SendResult(requesterId, addresseeId, error, 0, NULL)
                /\ UNCHANGED <<friends, nextUuid>>
           ELSE /\ nextUuid <= MaxFriendships
                /\ nextUuid' = nextUuid + 1
                /\ IF insertQueryError(users, friends, row) # NoError
                     THEN /\ last' = SendResult(requesterId, addresseeId,
                                  insertQueryError(users, friends, row), 0, NULL)
                          /\ UNCHANGED friends
                     ELSE /\ friends' = friends \cup {row}
                          /\ last' = SendResult(requesterId, addresseeId,
                                                NoError, row.id, row.status)

\* ---------------------------------------------- respondToFriendRequest

\* The status the UPDATE of respondToFriendRequest writes
newStatus(action) ==
  IF action = "accept" THEN "accepted" ELSE "rejected"

\* Faulty variant: the record is looked up before the action is validated.
respondErrorLookupFirst(fr, friendshipId, userId, action) ==
  IF findQuery(fr, friendshipId, userId) = {}
    THEN "Friend request not found"
  ELSE IF action \notin {"accept", "reject"}
    THEN "Invalid action"
  ELSE NoError

\* The checks of respondToFriendRequest in the order the code makes them
respondToFriendRequestError(fr, friendshipId, userId, action) ==
  IF action \notin {"accept", "reject"}
    THEN "Invalid action"
  ELSE IF findQuery(fr, friendshipId, userId) = {}
    THEN "Friend request not found"
  ELSE NoError

\* Faulty variant: the UPDATE stamps created_at as well.
updateQueryRestamp(fr, status, friendshipId, at) ==
  { IF f.id = friendshipId
      THEN [f EXCEPT !.status = status, !.updated_at = at, !.created_at = at]
      ELSE f : f \in fr }

\* UPDATE friends SET status = $1, updated_at = CURRENT_TIMESTAMP WHERE id = $2
updateQuery(fr, status, friendshipId, at) ==
  { IF f.id = friendshipId
      THEN [f EXCEPT !.status = status, !.updated_at = at]
      ELSE f : f \in fr }

\* findResult holds the status of the rows the SELECT found, status the one
\* the UPDATE returns
RespondResult(friendshipId, userId, action, error, findResult, status) ==
  [op |-> "respondToFriendRequest", friendshipId |-> friendshipId,
   userId |-> userId, action |-> action, error |-> error,
   findResult |-> findResult, status |-> status]

\* One whole call of respondToFriendRequest
RespondToFriendRequest(friendshipId, userId, action) ==
  LET error == respondToFriendRequestError(friends, friendshipId, userId, action)
  IN  /\ UNCHANGED <<users, expenses, nextUuid, txn, now, server, req, pool>>
      /\ IF error # NoError
           THEN /\ last' = RespondResult(friendshipId, userId, action, error,
                                         {}, NULL)
                /\ UNCHANGED friends
           ELSE /\ friends' = updateQuery(friends, newStatus(action),
                                         friendshipId, now)
                /\ last' = RespondResult(friendshipId, userId, action, NoError,
                            { f.status :
                                f \in findQuery(friends, friendshipId, userId) },
                            newStatus(action))

\* ------------------------------------------------------ the read calls

\* Faulty variant: the join always takes the requester of the row.
joinedRequester(f, userId) ==
  f.requester_id

\* The user joined to a friends row for caller userId:
\* CASE WHEN f.requester_id = $1 THEN u.id = f.addressee_id
\*      ELSE u.id = f.requester_id END
joinedUser(f, userId) ==
  IF f.requester_id = userId THEN f.addressee_id ELSE f.requester_id

\* The rows getFriends returns (their ORDER BY is not modelled)
getFriends(us, fr, userId) ==
  { [friendship_id |-> f.id, status |-> f.status,
     friendship_created |-> f.created_at, id |-> joinedUser(f, userId)] :
      f \in { g \in fr : /\ (g.requester_id = userId \/ g.addressee_id = userId)
                         /\ g.status = "accepted"
                         /\ joinedUser(g, userId) \in us } }

\* Faulty variant: the requests the user sent are listed too.
pendingEitherDirection(us, fr, userId) ==
  { [friendship_id |-> f.id, status |-> f.status,
     created_at |-> f.created_at, id |-> f.requester_id] :
      f \in { g \in fr : /\ (g.addressee_id = userId \/ g.requester_id = userId)
                         /\ g.status = "pending"
                         /\ g.requester_id \in us } }

\* The rows getPendingFriendRequests returns (their ORDER BY is not modelled)
getPendingFriendRequests(us, fr, userId) ==
  { [friendship_id |-> f.id, status |-> f.status,
     created_at |-> f.created_at, id |-> f.requester_id] :
      f \in { g \in fr : /\ g.addressee_id = userId
                         /\ g.status = "pending"
                         /\ g.requester_id \in us } }

GetFriends(userId) ==
  /\ last' = [op |-> "getFriends", userId |-> userId, error |-> NoError,
              rows |-> getFriends(users, friends, userId)]
  /\ UNCHANGED <<users, friends, expenses, nextUuid, txn, now, server, req, pool>>

GetPendingFriendRequests(userId) ==
  /\ last' = [op |-> "getPendingFriendRequests", userId |-> userId,
              error |-> NoError,
              rows |-> getPendingFriendRequests(users, friends, userId)]
  /\ UNCHANGED <<users, friends, expenses, nextUuid, txn, now, server, req, pool>>

\* ------------------------------------------------------- getFriendStats

RECURSIVE SumAmount(_)
\* SUM(amount) over a set of expense rows
SumAmount(rows) ==
  IF rows = {} THEN 0
  ELSE LET r == CHOOSE x \in rows : TRUE
       IN  r.amount + SumAmount(rows \ {r})

\* ROUND(AVG(amount), 2) in cents, halves rounded away from zero;
\* COALESCE(..., 0) when there is no row
RoundedAverage(rows) ==
  IF rows = {} THEN 0
  ELSE (2 * SumAmount(rows) + Cardinality(rows)) \div (2 * Cardinality(rows))

\* Faulty variant: the WHERE clause is left out.
expensesOfAnyone(ex, userId) ==
  ex

\* SELECT ... FROM expenses WHERE user_id = $1
expensesOf(ex, userId) ==
  { e \in ex : e.user_id = userId }

\* The object getFriendStats returns for the expense rows of the friend
\* (monthlyData, which needs the dates, is not modelled)
friendStats(rows) ==
  [totalExpenses |-> Cardinality(rows),
   totalAmount |-> SumAmount(rows),
   averageAmount |-> RoundedAverage(rows),
   categoryBreakdown |->
     { [category |-> c,
        count |-> Cardinality({ e \in rows : e.category = c }),
        total |-> SumAmount({ e \in rows : e.category = c })] :
         c \in { e.category : e \in rows } }]

StatsResult(friendId, currentUserId, error, stats) ==
  [op |-> "getFriendStats", friendId |-> friendId,
   currentUserId |-> currentUserId, error |-> error, stats |-> stats]

\* What getFriendStats returns over friends rows fr and expense rows ex: the
\* set of the one object returned, empty when the call throws
getFriendStats(fr, ex, friendId, currentUserId) ==
  IF friendshipQuery(fr, currentUserId, friendId) = {}
    THEN {}
    ELSE {friendStats(expensesOf(ex, friendId))}

\* One whole call of getFriendStats
GetFriendStats(friendId, currentUserId) ==
  /\ UNCHANGED <<users, friends, expenses, nextUuid, txn, now, server, req, pool, sqlite>>
  /\ last' = StatsResult(friendId, currentUserId,
                IF friendshipQuery(friends, currentUserId, friendId) = {}
                  THEN "Not friends with this user" ELSE NoError,
                getFriendStats(friends, expenses, friendId, currentUserId))

\* ---------------------------------------------------------- addExpense

\* INSERT INTO expenses: user_id REFERENCES users(id).  The id is the uuid
\* the route draws; no row is deleted here, so the n-th row gets the id n.
AddExpense(userId, category, amount) ==
  LET row == ExpenseRow(Cardinality(expenses) + 1, userId, category, amount)
  IN  /\ Cardinality(expenses) < MaxExpenses
      /\ UNCHANGED <<users, friends, nextUuid, txn, now, server, req, pool, sqlite>>
      /\ IF userId \notin users
           THEN /\ last' = [op |-> "addExpense", userId |-> userId,
                            error |-> ForeignKeyViolation, id |-> 0]
                /\ UNCHANGED expenses
           ELSE /\ expenses' = expenses \cup {row}
                /\ last' = [op |-> "addExpense", userId |-> userId,
                            error |-> NoError, id |-> row.id]

\* ---------------------------------------------------------- createUser

\* INSERT INTO users: id, username and email are unique
CreateUser(userId) ==
  /\ UNCHANGED <<friends, expenses, nextUuid, txn, now, server, req, pool, sqlite>>
  /\ IF userId \in users
       THEN /\ last' = [op |-> "createUser", userId |-> userId,
                        error |-> "Username or email already exists"]
            /\ UNCHANGED users
       ELSE /\ users' = users \cup {userId}
            /\ last' = [op |-> "createUser", userId |-> userId, error |-> NoError]

\* ------------------------------------------------------ the HTTP routes
\* The server runs one store, here the PostgreSQL one: a route leaves the
\* SQLite table of SpecTwin alone.
\* Every route runs behind authenticateToken, which sets req.userId; a token
\* outlives nothing in the model, so req.userId ranges over UserIds.

\* a field the request body leaves out
Missing == ""

\* The words of an error message, and of the needles the routes look for.
Words(message) ==
  CASE message = "User not found" -> <<"User", "not", "found">>
    [] message = "Cannot send friend request to yourself" ->
         <<"Cannot", "send", "friend", "request", "to", "yourself">>
    [] message = "Friend request already exists" ->
         <<"Friend", "request", "already", "exists">>
    [] message = "Invalid action" -> <<"Invalid", "action">>
    [] message = "Friend request not found" ->
         <<"Friend", "request", "not", "found">>
    [] message = "Not friends with this user" ->
         <<"Not", "friends", "with", "this", "user">>
    [] message = UniqueViolation ->
         <<"duplicate", "key", "value", "violates", "unique", "constraint">>
    [] message = ForeignKeyViolation ->
         <<"insert", "or", "update", "on", "table", "violates", "foreign",
           "key", "constraint">>
    [] message = "already exists" -> <<"already", "exists">>
    [] message = "not found" -> <<"not", "found">>
    [] message = "yourself" -> <<"yourself">>
    [] message = "Invalid" -> <<"Invalid">>
    [] message = "Not friends" -> <<"Not", "friends">>

\* error.message.includes(needle), case-sensitive, on whole words
includes(message, needle) ==
  LET m == Words(message)
      n == Words(needle)
  IN  \E i \in 0..(Len(m) - Len(n)) :
        \A j \in 1..Len(n) : m[i + j] = n[j]

Response(status, error) == [status |-> status, error |-> error]

\* the catch block of POST /api/friends/request
requestRouteError(message) ==
  IF \/ includes(message, "already exists")
     \/ includes(message, "not found")
     \/ includes(message, "yourself")
    THEN Response(400, message)
    ELSE Response(500, "Failed to send friend request")

\* the catch block of POST /api/friends/respond
respondRouteError(message) ==
  IF includes(message, "not found") \/ includes(message, "Invalid")
    THEN Response(400, message)
    ELSE Response(500, "Failed to respond to friend request")

\* the catch block of GET /api/friends/:friendId/stats
statsRouteError(message) ==
  IF includes(message, "Not friends")
    THEN Response(403, message)
    ELSE Response(500, "Failed to fetch friend stats")

\* a request the route answers without calling the store
Refused(route, status, error) ==
  /\ http' = Response(status, error)
  /\ last' = [op |-> route, error |-> error]
  /\ UNCHANGED <<users, friends, expenses, nextUuid, txn, now, server, req, pool, sqlite>>

\* app.post('/api/auth/register')
RegisterRoute(userId) ==
  /\ CreateUser(userId)
  /\ http' = IF last'.error = NoError
               THEN Response(201, NoError)
             ELSE IF last'.error = "Username or email already exists"
               THEN Response(409, last'.error)
             ELSE Response(500, "Failed to create user")

\* app.post('/api/expenses'); the date is always given, an amount of 0
\* counts as left out, a category left out becomes 'General'
ExpensesRoute(reqUserId, amount, category) ==
  IF amount = 0
    THEN Refused("POST /api/expenses", 400, "Amount and date are required")
    ELSE /\ AddExpense(reqUserId,
                       IF category = Missing THEN "General" ELSE category,
                       amount)
         /\ http' = IF last'.error = NoError
                      THEN Response(201, NoError)
                      ELSE Response(500, "Failed to create expense")

\* app.post('/api/friends/request')
FriendsRequestRoute(reqUserId, userId) ==
  IF userId = Missing
    THEN Refused("POST /api/friends/request", 400, "User ID is required")
    ELSE /\ SendFriendRequest(reqUserId, userId)
         /\ UNCHANGED sqlite
         /\ http' = IF last'.error = NoError
                      THEN Response(201, NoError)
                      ELSE requestRouteError(last'.error)

\* app.post('/api/friends/respond')
FriendsRespondRoute(reqUserId, friendshipId, action) ==
  IF friendshipId = 0 \/ action = Missing
    THEN Refused("POST /api/friends/respond", 400,
                 "Friendship ID and action are required")
    ELSE /\ RespondToFriendRequest(friendshipId, reqUserId, action)
         /\ UNCHANGED sqlite
         /\ http' = IF last'.error = NoError
                      THEN Response(200, NoError)
                      ELSE respondRouteError(last'.error)

\* app.get('/api/friends')
FriendsRoute(reqUserId) ==
  /\ GetFriends(reqUserId)
  /\ UNCHANGED sqlite
  /\ http' = Response(200, NoError)

\* app.get('/api/friends/pending')
FriendsPendingRoute(reqUserId) ==
  /\ GetPendingFriendRequests(reqUserId)
  /\ UNCHANGED sqlite
  /\ http' = Response(200, NoError)

\* app.get('/api/friends/:friendId/stats')
FriendStatsRoute(reqUserId, friendId) ==
  /\ GetFriendStats(friendId, reqUserId)
  /\ http' = IF last'.error = NoError
               THEN Response(200, NoError)
               ELSE statsRouteError(last'.error)

\* ------------------------------------------- the sequential specification

\* the friendship ids a caller may pass: every uuid drawn, and an unknown one
FriendshipIds == 1..(MaxFriendships + 1)

\* the friendshipId and action a request to respond may carry: every pair of
\* the two, and a body that leaves one of them out
RespondBodies ==
  (FriendshipIds \X Actions) \cup {<<0, "accept">>, <<1, Missing>>}

Next ==
  \/ \E u \in UserIds : RegisterRoute(u)
  \/ \E r \in UserIds, a \in UserIds \cup {Missing} : FriendsRequestRoute(r, a)
  \/ \E u \in UserIds, body \in RespondBodies :
       FriendsRespondRoute(u, body[1], body[2])
  \/ \E u \in UserIds : FriendsRoute(u)
  \/ \E u \in UserIds : FriendsPendingRoute(u)
  \/ \E u \in UserIds, f \in UserIds : FriendStatsRoute(u, f)

Spec == Init /\ [][Next]_vars

\* ---------------------------------------- the specification with a clock
\* The same requests while time passes between them; one user sends the
\* friend requests, every user answers them.

ClockRequesters == {"demo_user"}

\* time passes
Tick ==
  /\ now < MaxClock
  /\ now' = now + 1
  /\ UNCHANGED <<users, friends, expenses, nextUuid, last, txn, http, server, req, pool, sqlite>>

NextClock ==
  \/ Tick
  \/ \E u \in UserIds : RegisterRoute(u)
  \/ \E r \in ClockRequesters, a \in UserIds : FriendsRequestRoute(r, a)
  \/ \E u \in UserIds, id \in FriendshipIds, act \in Actions :
       FriendsRespondRoute(u, id, act)

SpecClock == Init /\ [][NextClock]_vars

\* ------------------------------------ the specification with expenses
\* Friend requests, responses and statistics while the seeded users add
\* expenses.

NextStats ==
  \/ \E u \in UserIds, amt \in Amounts \cup {0}, c \in Categories \cup {Missing} :
       ExpensesRoute(u, amt, c)
  \/ \E r \in UserIds, a \in UserIds : FriendsRequestRoute(r, a)
  \/ \E u \in UserIds, id \in FriendshipIds, act \in Actions :
       FriendsRespondRoute(u, id, act)
  \/ \E u \in UserIds, f \in UserIds : FriendStatsRoute(u, f)

SpecStats == Init /\ [][NextStats]_vars

\* ---------------------------------------------------- authenticateToken
\* A request to a friend route passes authenticateToken and then, when
\* next() was called, its handler.  The Authorization header is the
\* sequence of its parts between blanks.

\* const JWT_SECRET
JwtSecret == "JWT_SECRET"

\* the users tokens and bodies of SpecAuth name
AuthUsers == SeedUsers

\* createToken(userId): jwt.sign({ userId }, JWT_SECRET, { expiresIn })
createToken(userId) ==
  [userId |-> userId, secret |-> JwtSecret, expired |-> FALSE]

\* the tokens a request may show: those createToken made, one of them past
\* its expiry, and one signed with another secret
Tokens ==
  { createToken(u) : u \in AuthUsers } \cup
    { [createToken("demo_user") EXCEPT !.expired = TRUE],
      [createToken("demo_user") EXCEPT !.secret = "forged"] }

AuthHeaders ==
  {<<>>, <<"Bearer">>, <<"Bearer", NoToken>>} \cup
    { <<"Bearer", t>> : t \in Tokens }

\* the bodies a request may carry; requesterId is a field no route reads
RequestBodies ==
  { [EmptyBody EXCEPT !.userId = a, !.requesterId = r] :
      a \in AuthUsers, r \in AuthUsers }

RespondRequestBodies ==
  { [EmptyBody EXCEPT !.friendshipId = 1, !.action = act, !.requesterId = r] :
      act \in {"accept", "reject"}, r \in AuthUsers }

\* const token = authHeader && authHeader.split(' ')[1]
tokenOf(header) ==
  IF Len(header) < 2 THEN NoToken ELSE header[2]

\* Faulty variant: the expiry of the token is not looked at.
verifiesIgnoringExpiry(token) ==
  token.secret = JwtSecret

\* jwt.verify(token, JWT_SECRET, ...) calls back without err
verifies(token) ==
  token.secret = JwtSecret /\ ~token.expired

\* a request has passed authenticateToken and its handler has not answered
Pending ==
  req.nextCalls = 1 /\ http.status = 0

\* authenticateToken(req, res, next) for a request that comes in
AuthenticateToken(route, header, body) ==
  LET token == tokenOf(header)
      request == [route |-> route, header |-> header, body |-> body,
                  userId |-> NULL, nextCalls |-> 0]
  IN  /\ ~Pending
      /\ IF token = NoToken
           THEN /\ req' = request
                /\ http' = Response(401, "Access token required")
                /\ last' = [op |-> "authenticateToken",
                            error |-> "Access token required"]
         ELSE IF ~verifies(token)
           THEN /\ req' = request
                /\ http' = Response(403, "Invalid or expired token")
                /\ last' = [op |-> "authenticateToken",
                            error |-> "Invalid or expired token"]
         ELSE /\ req' = [request EXCEPT !.userId = token.userId,
                                        !.nextCalls = 1]
              /\ http' = Response(0, NoError)
              /\ last' = [op |-> "authenticateToken", error |-> NoError]
      /\ UNCHANGED <<users, friends, expenses, nextUuid, txn, now, server,
                     pool, sqlite>>

\* Faulty variant: the caller is read from the request body.
callerFromBody(request) ==
  request.body.requesterId

\* req.userId, the caller the two friend routes pass to the store
callerOf(request) ==
  request.userId

\* the handler of the pending request runs
Handle ==
  /\ Pending
  /\ IF req.route = "POST /api/friends/request"
       THEN FriendsRequestRoute(callerOf(req), req.body.userId)
       ELSE FriendsRespondRoute(callerOf(req), req.body.friendshipId,
                                req.body.action)

NextAuth ==
  \/ \E h \in AuthHeaders, b \in RequestBodies :
       AuthenticateToken("POST /api/friends/request", h, b)
  \/ \E h \in AuthHeaders, b \in RespondRequestBodies :
       AuthenticateToken("POST /api/friends/respond", h, b)
  \/ Handle

SpecAuth == Init /\ [][NextAuth]_vars

\* ------------------------------------------------------- server startup
\* startServer and initializeDatabase, from the start of the process; the
\* store is empty until an attempt succeeds and seeds it.

\* the values initializeDatabase is given for retries
RetriesGiven == 0..DefaultRetries

InitStart ==
  /\ users = {}
  /\ friends = {}
  /\ expenses = {}
  /\ nextUuid = 1
  /\ last = [op |-> "init", error |-> NoError]
  /\ txn = [p \in Procs |-> IdleTxn]
  /\ now = 0
  /\ http = [status |-> 0, error |-> NoError]
  /\ \E r \in RetriesGiven :
       server = [pc |-> "start", retries |-> r, i |-> 0, db |-> FALSE,
                 result |-> "none", listening |-> FALSE, attempts |-> 0,
                 failures |-> 0, waits |-> 0]
  /\ req = IdleReq
  /\ pool = [c \in PoolCallers |-> IdleCall]
  /\ sqlite = EmptySqlite

\* const dbInitialized = await initializeDatabase(): let i = 0
StartServer ==
  /\ server.pc = "start"
  /\ server' = [server EXCEPT !.pc = "loop"]
  /\ UNCHANGED <<users, friends, expenses, nextUuid, last, txn, now, http, req,
                 pool, sqlite>>

\* i < retries, and return false when the loop is left
LoopTest ==
  /\ server.pc = "loop"
  /\ server' = IF server.i < server.retries
                 THEN [server EXCEPT !.pc = "create"]
                 ELSE [server EXCEPT !.pc = "returned", !.result = "false"]
  /\ UNCHANGED <<users, friends, expenses, nextUuid, last, txn, now, http, req,
                 pool, sqlite>>

\* db = DatabaseFactory.create(), and db.init() is called
CreateDb ==
  /\ server.pc = "create"
  /\ server' = [server EXCEPT !.pc = "init", !.db = TRUE,
                              !.attempts = @ + 1]
  /\ UNCHANGED <<users, friends, expenses, nextUuid, last, txn, now, http, req,
                 pool, sqlite>>

\* await db.init() and await db.createSeedData() resolve: return true
InitSucceeds ==
  /\ server.pc = "init"
  /\ users' = IF users = {} THEN SeedUsers ELSE users
  /\ expenses' = IF users = {} THEN SeedExpenses ELSE expenses
  /\ server' = [server EXCEPT !.pc = "returned", !.result = "true"]
  /\ UNCHANGED <<friends, nextUuid, last, txn, now, http, req, pool, sqlite>>

\* Faulty variant: the wait follows every failure.
waitsAfterEveryFailure(i, retries) ==
  TRUE

\* if (i < retries - 1): the wait of five seconds follows the failure
waitsAfterFailure(i, retries) ==
  i < retries - 1

\* await db.init() or await db.createSeedData() rejects: the catch block
InitFails ==
  /\ server.pc = "init"
  /\ server' = IF waitsAfterFailure(server.i, server.retries)
                 THEN [server EXCEPT !.pc = "wait", !.failures = @ + 1,
                                     !.waits = @ + 1]
                 ELSE [server EXCEPT !.pc = "loop", !.failures = @ + 1,
                                     !.i = @ + 1]
  /\ UNCHANGED <<users, friends, expenses, nextUuid, last, txn, now, http, req,
                 pool, sqlite>>

\* the timer of the wait fires: i++
Wake ==
  /\ server.pc = "wait"
  /\ server' = [server EXCEPT !.pc = "loop", !.i = @ + 1]
  /\ UNCHANGED <<users, friends, expenses, nextUuid, last, txn, now, http, req,
                 pool, sqlite>>

\* Faulty variant: app.listen is not held back by the await.
listensAtOnce(srv) ==
  ~srv.listening

\* app.listen comes after await initializeDatabase()
canListen(srv) ==
  srv.pc = "returned"

\* app.listen(PORT, '0.0.0.0', ...)
Listen ==
  /\ canListen(server)
  /\ server' = [server EXCEPT !.pc = "listening", !.listening = TRUE]
  /\ UNCHANGED <<users, friends, expenses, nextUuid, last, txn, now, http, req,
                 pool, sqlite>>

\* app.get('/health')
Health ==
  /\ server.listening
  /\ http' = Response(200, NoError)
  /\ last' = [op |-> "GET /health", error |-> NoError,
              database |-> IF server.db THEN "connected" ELSE "disconnected"]
  /\ UNCHANGED <<users, friends, expenses, nextUuid, txn, now, server, req,
                 pool, sqlite>>

\* app.use('/api/*') before a route, here GET /api/friends: without a db
\* handle the request is refused; with one the handler runs, and its catch
\* block answers when the store was never initialized
ApiFriends(reqUserId) ==
  /\ server.listening
  /\ IF ~server.db
       THEN Refused("/api/*", 503, "Database not available")
     ELSE IF server.result # "true"
       THEN Refused("GET /api/friends", 500, "Failed to fetch friends")
     ELSE FriendsRoute(reqUserId)

ServerStep ==
  \/ StartServer
  \/ LoopTest
  \/ CreateDb
  \/ InitSucceeds
  \/ InitFails
  \/ Wake
  \/ Listen

NextStart ==
  \/ ServerStep
  \/ Health
  \/ \E u \in UserIds : ApiFriends(u)

SpecStart == InitStart /\ [][NextStart]_vars

\* timers fire, and db.init() settles (a connection attempt times out)
SpecStartLive == SpecStart /\ WF_vars(ServerStep)

\* ------------------------------------------------------------ searchUsers
\* Strings are sequences of characters.

\* username and display_name of the users: the two of createSeedData, and
\* one a registration adds
Profile(userId) ==
  CASE userId = "demo_user" ->
         [username |-> <<"d", "e", "m", "o", "_", "u", "s", "e", "r">>,
          display_name |-> <<"D", "e", "m", "o", " ", "U", "s", "e", "r">>]
    [] userId = "friend_user" ->
         [username |-> <<"f", "r", "i", "e", "n", "d", "_", "u", "s", "e", "r">>,
          display_name |->
            <<"F", "r", "i", "e", "n", "d", " ", "U", "s", "e", "r">>]
    [] userId = "third_user" ->
         [username |-> <<"t", "h", "i", "r", "d", "_", "u", "s", "e", "r">>,
          display_name |-> <<"T", "h", "i", "r", "d", " ", "U", "s", "e", "r">>]

\* the characters a search term is made of
TermChars == {"d", "U", "x", "_", "%"}

RECURSIVE TermsOfLength(_)
TermsOfLength(n) ==
  IF n = 0 THEN {<<>>}
  ELSE { Append(t, c) : t \in TermsOfLength(n - 1), c \in TermChars }

SearchTerms == UNION { TermsOfLength(n) : n \in 0..MaxTermLen }

\* the limits a caller may pass; PostgreSQL refuses a negative one
Limits == -1..MaxLimit

\* lower case of a character, as ILIKE folds it
Lower(c) ==
  CASE c = "D" -> "d" [] c = "F" -> "f" [] c = "T" -> "t" [] c = "U" -> "u"
    [] OTHER -> c

RECURSIVE Like(_, _)
\* string ILIKE pattern: % matches any run of characters, _ any one
\* character, every other character itself whatever its case
Like(string, pattern) ==
  IF pattern = <<>> THEN string = <<>>
  ELSE IF Head(pattern) = "%"
    THEN \/ Like(string, Tail(pattern))
         \/ (string # <<>> /\ Like(Tail(string), pattern))
  ELSE /\ string # <<>>
       /\ (Head(pattern) = "_" \/ Lower(Head(pattern)) = Lower(Head(string)))
       /\ Like(Tail(string), Tail(pattern))

\* const searchPattern = `%${searchTerm}%`
searchPattern(searchTerm) ==
  <<"%">> \o searchTerm \o <<"%">>

\* WHERE (username ILIKE $1 OR display_name ILIKE $1) AND id != $2
searchMatches(us, searchTerm, currentUserId) ==
  { u \in us : /\ \/ Like(Profile(u).username, searchPattern(searchTerm))
                   \/ Like(Profile(u).display_name, searchPattern(searchTerm))
                /\ u # currentUserId }

\* One whole call of searchUsers.  LIMIT without ORDER BY keeps any limit of
\* the matching rows.
SearchUsers(searchTerm, currentUserId, limit) ==
  /\ UNCHANGED <<users, friends, expenses, nextUuid, txn, now, http, server, req, pool, sqlite>>
  /\ IF limit < 0
       THEN last' = [op |-> "searchUsers", term |-> searchTerm,
                     userId |-> currentUserId, limit |-> limit,
                     error |-> "LIMIT must not be negative", users |-> {}]
       ELSE LET matches == searchMatches(users, searchTerm, currentUserId)
            IN  \E rows \in SUBSET matches :
                  /\ \/ Cardinality(rows) = limit
                     \/ Cardinality(rows) < limit /\ rows = matches
                  /\ last' = [op |-> "searchUsers", term |-> searchTerm,
                              userId |-> currentUserId, limit |-> limit,
                              error |-> NoError, users |-> rows]

\* searches over the seeded users
NextSearch ==
  \E t \in SearchTerms, u \in UserIds, l \in Limits : SearchUsers(t, u, l)

SpecSearch == Init /\ [][NextSearch]_vars

\* ---------------------------------------- updateExpense and deleteExpense

\* WHERE id = $1, without the owner
expenseWhereIdOnly(ex, id, userId) ==
  { e \in ex : e.id = id }

\* WHERE id = $6 AND user_id = $7 (UPDATE), WHERE id = $1 AND user_id = $2
\* (DELETE): the rows the statement touches
expenseWhere(ex, id, userId) ==
  { e \in ex : e.id = id /\ e.user_id = userId }

\* UPDATE expenses SET category = $2, amount = $3 ... RETURNING *; no row
\* returned throws 'Expense not found'
UpdateExpense(id, expense, userId) ==
  LET rows == expenseWhere(expenses, id, userId)
  IN  /\ UNCHANGED <<users, friends, nextUuid, txn, now, server, req, pool, sqlite>>
      /\ expenses' = (expenses \ rows) \cup
                       { ExpenseRow(e.id, e.user_id, expense.category,
                                    expense.amount) : e \in rows }
      /\ last' = [op |-> "updateExpense", id |-> id, userId |-> userId,
                  error |-> IF rows = {} THEN "Expense not found" ELSE NoError]

\* DELETE FROM expenses; rowCount 0 throws 'Expense not found'
DeleteExpense(id, userId) ==
  LET rows == expenseWhere(expenses, id, userId)
  IN  /\ UNCHANGED <<users, friends, nextUuid, txn, now, server, req, pool, sqlite>>
      /\ expenses' = expenses \ rows
      /\ last' = [op |-> "deleteExpense", id |-> id, userId |-> userId,
                  error |-> IF rows = {} THEN "Expense not found" ELSE NoError]

\* the catch blocks of PUT and DELETE /api/expenses/:id
expenseRouteError(message, fallback) ==
  IF message = "Expense not found"
    THEN Response(404, "Expense not found")
    ELSE Response(500, fallback)

\* app.put('/api/expenses/:id'); the date is always given, an amount of 0
\* counts as left out, a category left out becomes 'General'
UpdateExpenseRoute(reqUserId, id, amount, category) ==
  IF amount = 0
    THEN Refused("PUT /api/expenses/:id", 400, "Amount and date are required")
    ELSE /\ UpdateExpense(id,
                          [category |-> IF category = Missing THEN "General"
                                                              ELSE category,
                           amount |-> amount],
                          reqUserId)
         /\ http' = IF last'.error = NoError
                      THEN Response(200, NoError)
                      ELSE expenseRouteError(last'.error,
                                             "Failed to update expense")

\* app.delete('/api/expenses/:id')
DeleteExpenseRoute(reqUserId, id) ==
  /\ DeleteExpense(id, reqUserId)
  /\ http' = IF last'.error = NoError
               THEN Response(200, NoError)
               ELSE expenseRouteError(last'.error, "Failed to delete expense")

\* the amounts a PUT body may carry: left out, or a new amount
NewAmounts == {0} \cup { a + a : a \in Amounts }

\* the ids a request may name: those of the rows and one of no row
ExpenseIds == 1..MaxExpenses

\* the store after the second demo user has added one expense to the seed
InitExpense ==
  /\ users = SeedUsers
  /\ friends = {}
  /\ expenses = SeedExpenses \cup
                  { ExpenseRow(Cardinality(SeedExpenses) + 1, "friend_user",
                               "Groceries", 1000) }
  /\ nextUuid = 1
  /\ last = [op |-> "addExpense", userId |-> "friend_user",
             error |-> NoError, id |-> Cardinality(SeedExpenses) + 1]
  /\ txn = [p \in Procs |-> IdleTxn]
  /\ now = 0
  /\ http = Response(201, NoError)
  /\ server = RunningServer
  /\ req = IdleReq
  /\ pool = [c \in PoolCallers |-> IdleCall]
  /\ sqlite = EmptySqlite

NextExpense ==
  \/ \E u \in UserIds, id \in ExpenseIds, a \in NewAmounts,
        c \in Categories \cup {Missing} : UpdateExpenseRoute(u, id, a, c)
  \/ \E u \in UserIds, id \in ExpenseIds : DeleteExpenseRoute(u, id)

SpecExpense == InitExpense /\ [][NextExpense]_vars

\* ------------------------------------------------- the connection pool
\* The friendship operations of the PostgreSQL store, reduced to what they do
\* with the pool: each awaits pool.connect(), works inside try, and releases
\* in finally.  sendFriendRequest also awaits getUserById twice while it holds
\* its transaction client, and getUserById takes and releases a client of its
\* own.  A query may succeed or throw.

PoolOperations ==
  {"sendFriendRequest", "respondToFriendRequest", "getFriends",
   "getPendingFriendRequests", "searchUsers", "getFriendStats"}

\* pool.connect() rejected after connectionTimeoutMillis
ConnectTimeout == "timeout exceeded when trying to connect"
QueryFailed == "query failed"

RECURSIVE checkedOut(_, _)
\* the clients the callers cs hold
checkedOut(p, cs) ==
  IF cs = {} THEN 0
  ELSE LET c == CHOOSE x \in cs : TRUE
       IN  p[c].held + checkedOut(p, cs \ {c})

\* the clients pool.connect() can still hand out
idleClients(p) == PoolSize - checkedOut(p, PoolCallers)

\* pool.connect() resolved: one more client held
acquire(call) ==
  [call EXCEPT !.held = @ + 1, !.acquired = @ + 1]

\* client.release() only where the try block returned
releaseOnReturnOnly(call) ==
  IF call.error = NoError
    THEN [call EXCEPT !.held = @ - 1, !.released = @ + 1]
    ELSE call

\* finally { client.release() }
release(call) ==
  [call EXCEPT !.held = @ - 1, !.released = @ + 1]

PoolFrame ==
  UNCHANGED <<users, friends, expenses, nextUuid, last, txn, now, http, server,
              req, sqlite>>

\* an operation is called: it awaits this.pool.connect()
CallOperation(c, op) ==
  /\ pool[c].pc = "idle"
  /\ pool' = [pool EXCEPT ![c] = [IdleCall EXCEPT !.pc = "connect", !.op = op]]
  /\ PoolFrame

\* const client = await this.pool.connect() resolves; sendFriendRequest
\* goes on to BEGIN and getUserById(requesterId)
Connect(c) ==
  /\ pool[c].pc = "connect"
  /\ idleClients(pool) > 0
  /\ pool' = [pool EXCEPT ![c] =
                [acquire(@) EXCEPT !.pc = IF pool[c].op = "sendFriendRequest"
                                            THEN "requester" ELSE "query"]]
  /\ PoolFrame

\* the connect of the operation itself is rejected: it is outside try, the
\* call throws with no client held
ConnectRejected(c) ==
  /\ pool[c].pc = "connect"
  /\ idleClients(pool) = 0
  /\ pool' = [pool EXCEPT ![c] = [@ EXCEPT !.pc = "idle",
                                            !.error = ConnectTimeout]]
  /\ PoolFrame

\* getUserById: const client = await this.pool.connect() resolves
GetUserByIdConnect(c) ==
  /\ pool[c].pc \in {"requester", "addressee"}
  /\ idleClients(pool) > 0
  /\ pool' = [pool EXCEPT ![c] =
                [acquire(@) EXCEPT !.pc = IF pool[c].pc = "requester"
                                            THEN "requesterQuery"
                                            ELSE "addresseeQuery"]]
  /\ PoolFrame

\* getUserById: the connect is rejected, sendFriendRequest goes to its catch
GetUserByIdRejected(c) ==
  /\ pool[c].pc \in {"requester", "addressee"}
  /\ idleClients(pool) = 0
  /\ pool' = [pool EXCEPT ![c] = [@ EXCEPT !.pc = "finally",
                                            !.error = ConnectTimeout]]
  /\ PoolFrame

\* getUserById: the query returns or throws, finally releases its client
GetUserById(c, ok) ==
  /\ pool[c].pc \in {"requesterQuery", "addresseeQuery"}
  /\ pool' = [pool EXCEPT ![c] =
                [release(@) EXCEPT
                   !.pc = IF ~ok THEN "finally"
                          ELSE IF pool[c].pc = "requesterQuery" THEN "addressee"
                          ELSE "query",
                   !.error = IF ok THEN NoError ELSE QueryFailed]]
  /\ PoolFrame

\* the queries of the operation return, or one throws (catch rethrows,
\* after ROLLBACK in sendFriendRequest)
Query(c, ok) ==
  /\ pool[c].pc = "query"
  /\ pool' = [pool EXCEPT ![c] =
                [@ EXCEPT !.pc = "finally",
                          !.error = IF ok THEN NoError ELSE QueryFailed]]
  /\ PoolFrame

\* finally { client.release() }, and the call is over
Finally(c) ==
  /\ pool[c].pc = "finally"
  /\ pool' = [pool EXCEPT ![c] = [release(@) EXCEPT !.pc = "idle"]]
  /\ PoolFrame

NextPool ==
  \/ \E c \in PoolCallers, op \in PoolOperations : CallOperation(c, op)
  \/ \E c \in PoolCallers : Connect(c)
  \/ \E c \in PoolCallers : ConnectRejected(c)
  \/ \E c \in PoolCallers : GetUserByIdConnect(c)
  \/ \E c \in PoolCallers : GetUserByIdRejected(c)
  \/ \E c \in PoolCallers, ok \in BOOLEAN : GetUserById(c, ok)
  \/ \E c \in PoolCallers, ok \in BOOLEAN : Query(c, ok)
  \/ \E c \in PoolCallers : Finally(c)

SpecPool == Init /\ [][NextPool]_vars

\* ------------------------------------------------------ the SQLite store
\* The friend methods of the SQLite ExpenseDatabase, each one synchronous
\* call, on the table sqlite.friends, and a specification that feeds every
\* call to both stores.  uuid v4() gives the n-th row of either store the
\* id n, so that a call can name the same request in both.

\* stmt.get(userId) of SELECT ... FROM users WHERE id = ?: the row, or undefined
sqliteGetUserById(us, userId) ==
  IF \E u \in us : u = userId THEN userId ELSE NULL

\* the four parameters bound as (requesterId, addresseeId, requesterId,
\* addresseeId): the reverse direction is never looked up
sqliteExistingSameDirection(fr, requesterId, addresseeId) ==
  LET bound == <<requesterId, addresseeId, requesterId, addresseeId>>
  IN  { f \in fr :
          \/ (f.requester_id = bound[1] /\ f.addressee_id = bound[2])
          \/ (f.requester_id = bound[3] /\ f.addressee_id = bound[4]) }

\* SELECT * FROM friends WHERE (requester_id = ? AND addressee_id = ?)
\*                          OR (requester_id = ? AND addressee_id = ?)
\* .get(requesterId, addresseeId, addresseeId, requesterId)
sqliteExisting(fr, requesterId, addresseeId) ==
  LET bound == <<requesterId, addresseeId, addresseeId, requesterId>>
  IN  { f \in fr :
          \/ (f.requester_id = bound[1] /\ f.addressee_id = bound[2])
          \/ (f.requester_id = bound[3] /\ f.addressee_id = bound[4]) }

SqliteUnique == "UNIQUE constraint failed"
SqliteForeignKey == "FOREIGN KEY constraint failed"

\* the constraints of the SQLite table friends: PRIMARY KEY, UNIQUE and the
\* two FOREIGN KEYs, with the messages SQLite raises
sqliteInsertError(us, fr, row) ==
  IF \E f \in fr : f.id = row.id
    THEN SqliteUnique
  ELSE IF \E f \in fr : /\ f.requester_id = row.requester_id
                        /\ f.addressee_id = row.addressee_id
    THEN SqliteUnique
  ELSE IF row.requester_id \notin us \/ row.addressee_id \notin us
    THEN SqliteForeignKey
  ELSE NoError

\* the checks of the SQLite sendFriendRequest in the order of the code
sqliteSendError(us, fr, requesterId, addresseeId) ==
  LET requester == sqliteGetUserById(us, requesterId)
      addressee == sqliteGetUserById(us, addresseeId)
  IN  IF requester = NULL \/ addressee = NULL
        THEN "User not found"
      ELSE IF requesterId = addresseeId
        THEN "Cannot send friend request to yourself"
      ELSE IF sqliteExisting(fr, requesterId, addresseeId) # {}
        THEN "Friend request already exists"
      ELSE NoError

\* the SQLite sendFriendRequest: the store after the call
sqliteSendFriendRequest(db, us, requesterId, addresseeId, at) ==
  LET error == sqliteSendError(us, db.friends, requesterId, addresseeId)
      row == FriendRow(db.nextUuid, requesterId, addresseeId, "pending", at)
      failed == sqliteInsertError(us, db.friends, row)
  IN  IF error # NoError
        THEN [db EXCEPT !.last = [op |-> "sendFriendRequest", error |-> error,
                                  id |-> 0, status |-> NULL]]
      ELSE IF failed # NoError
        THEN [db EXCEPT !.nextUuid = @ + 1,
                        !.last = [op |-> "sendFriendRequest", error |-> failed,
                                  id |-> 0, status |-> NULL]]
      ELSE [friends |-> db.friends \cup {row},
            nextUuid |-> db.nextUuid + 1,
            last |-> [op |-> "sendFriendRequest", error |-> NoError,
                      id |-> row.id, status |-> "pending"]]

\* .get(friendshipId, userId) of
\* SELECT * FROM friends WHERE id = ? AND addressee_id = ?
sqliteFriendship(fr, friendshipId, userId) ==
  { f \in fr : f.id = friendshipId /\ f.addressee_id = userId }

\* the SQLite respondToFriendRequest: the store after the call
sqliteRespondToFriendRequest(db, friendshipId, userId, action, at) ==
  LET status == IF action = "accept" THEN "accepted" ELSE "rejected"
      error == IF action \notin {"accept", "reject"}
                 THEN "Invalid action"
               ELSE IF sqliteFriendship(db.friends, friendshipId, userId) = {}
                 THEN "Friend request not found"
               ELSE NoError
  IN  IF error # NoError
        THEN [db EXCEPT !.last = [op |-> "respondToFriendRequest",
                                  error |-> error, status |-> NULL]]
        ELSE [db EXCEPT
                !.friends = { IF f.id = friendshipId
                                THEN [f EXCEPT !.status = status,
                                               !.updated_at = at]
                                ELSE f : f \in db.friends },
                !.last = [op |-> "respondToFriendRequest", error |-> NoError,
                          status |-> status]]

\* the rows the SQLite getFriends returns (their ORDER BY is not modelled)
sqliteGetFriends(us, fr, userId) ==
  { [friendship_id |-> f.id, status |-> f.status,
     friendship_created |-> f.created_at,
     id |-> IF f.requester_id = userId THEN f.addressee_id
                                       ELSE f.requester_id] :
      f \in { g \in fr :
                /\ (g.requester_id = userId \/ g.addressee_id = userId)
                /\ g.status = "accepted"
                /\ (IF g.requester_id = userId THEN g.addressee_id
                                               ELSE g.requester_id) \in us } }

\* the rows the SQLite getPendingFriendRequests returns
sqliteGetPendingFriendRequests(us, fr, userId) ==
  { [friendship_id |-> f.id, status |-> f.status,
     created_at |-> f.created_at, id |-> f.requester_id] :
      f \in { g \in fr : /\ g.addressee_id = userId
                         /\ g.status = "pending"
                         /\ g.requester_id \in us } }

\* the same call on both stores
TwinSendFriendRequest(requesterId, addresseeId) ==
  /\ SendFriendRequest(requesterId, addresseeId)
  /\ sqlite' = sqliteSendFriendRequest(sqlite, users, requesterId,
                                       addresseeId, now)
  /\ UNCHANGED http

TwinRespondToFriendRequest(friendshipId, userId, action) ==
  /\ RespondToFriendRequest(friendshipId, userId, action)
  /\ sqlite' = sqliteRespondToFriendRequest(sqlite, friendshipId, userId,
                                            action, now)
  /\ UNCHANGED http

TwinGetFriends(userId) ==
  /\ GetFriends(userId)
  /\ sqlite' = [sqlite EXCEPT !.last =
                  [op |-> "getFriends", error |-> NoError,
                   rows |-> sqliteGetFriends(users, sqlite.friends, userId)]]
  /\ UNCHANGED http

TwinGetPendingFriendRequests(userId) ==
  /\ GetPendingFriendRequests(userId)
  /\ sqlite' = [sqlite EXCEPT !.last =
                  [op |-> "getPendingFriendRequests", error |-> NoError,
                   rows |-> sqliteGetPendingFriendRequests(
                              users, sqlite.friends, userId)]]
  /\ UNCHANGED http

NextTwin ==
  \/ \E r \in UserIds, a \in UserIds : TwinSendFriendRequest(r, a)
  \/ \E id \in FriendshipIds \cup {0}, u \in UserIds, act \in Actions :
       TwinRespondToFriendRequest(id, u, act)
  \/ \E u \in UserIds : TwinGetFriends(u)
  \/ \E u \in UserIds : TwinGetPendingFriendRequests(u)

SpecTwin == Init /\ [][NextTwin]_vars

\* ------------------------------------------- the concurrent specification
\* sendFriendRequest split at its awaits.  Each caller holds its own pool
\* client; BEGIN opens a READ COMMITTED transaction (the PostgreSQL default,
\* the code sets no other level): every statement reads the committed rows
\* and the transaction's own writes.  getUserById runs on a client of its
\* own, outside the transaction.

\* const client = await this.pool.connect(); await client.query('BEGIN')
Begin(p, requesterId, addresseeId) ==
  /\ txn[p].pc \in {"idle", "done"}
  /\ txn' = [txn EXCEPT ![p] = [IdleTxn EXCEPT !.pc = "getRequester",
                                               !.requesterId = requesterId,
                                               !.addresseeId = addresseeId]]
  /\ UNCHANGED <<users, friends, expenses, nextUuid, last, now, http, server, req, pool, sqlite>>

\* const requester = await this.getUserById(requesterId)
GetRequester(p) ==
  /\ txn[p].pc = "getRequester"
  /\ txn' = [txn EXCEPT ![p].requester = getUserById(users, txn[p].requesterId),
                        ![p].pc = "getAddressee"]
  /\ UNCHANGED <<users, friends, expenses, nextUuid, last, now, http, server, req, pool, sqlite>>

\* const addressee = await this.getUserById(addresseeId), and the two checks
\* that follow it
GetAddressee(p) ==
  LET addressee == getUserById(users, txn[p].addresseeId)
  IN  /\ txn[p].pc = "getAddressee"
      /\ txn' = [txn EXCEPT ![p] =
           IF txn[p].requester = NULL \/ addressee = NULL
             THEN [@ EXCEPT !.pc = "rollback", !.error = "User not found"]
           ELSE IF txn[p].requesterId = txn[p].addresseeId
             THEN [@ EXCEPT !.pc = "rollback",
                            !.error = "Cannot send friend request to yourself"]
           ELSE [@ EXCEPT !.pc = "existing"]]
      /\ UNCHANGED <<users, friends, expenses, nextUuid, last, now, http, server, req, pool, sqlite>>

\* const existingResult = await client.query(existingQuery, ...), the check of
\* its rows, and const friendId = uuidv4()
Existing(p) ==
  /\ txn[p].pc = "existing"
  /\ IF existingQuery(friends \cup txn[p].writes,
                      txn[p].requesterId, txn[p].addresseeId) # {}
       THEN /\ txn' = [txn EXCEPT ![p].pc = "rollback",
                                  ![p].error = "Friend request already exists"]
            /\ UNCHANGED nextUuid
       ELSE /\ nextUuid <= MaxFriendships
            /\ nextUuid' = nextUuid + 1
            /\ txn' = [txn EXCEPT ![p].pc = "insert", ![p].id = nextUuid]
  /\ UNCHANGED <<users, friends, expenses, last, now, http, server, req, pool, sqlite>>

\* The rows other transactions have written and not yet committed that hold
\* a unique key of row: the INSERT waits for those transactions to end.
uncommittedConflicts(p, row) ==
  { w \in UNION { txn[q].writes : q \in Procs \ {p} } :
      \/ w.id = row.id
      \/ (w.requester_id = row.requester_id /\ w.addressee_id = row.addressee_id) }

\* const result = await client.query(insertQuery, ...)
Insert(p) ==
  LET row == FriendRow(txn[p].id, txn[p].requesterId, txn[p].addresseeId,
                       "pending", now)
      error == insertQueryError(users, friends \cup txn[p].writes, row)
  IN  /\ txn[p].pc = "insert"
      /\ uncommittedConflicts(p, row) = {}
      /\ txn' = [txn EXCEPT ![p] =
           IF error # NoError
             THEN [@ EXCEPT !.pc = "rollback", !.error = error]
             ELSE [@ EXCEPT !.pc = "commit", !.writes = {row}]]
      /\ UNCHANGED <<users, friends, expenses, nextUuid, last, now, http, server, req, pool, sqlite>>

\* await client.query('COMMIT'); return result.rows[0]
Commit(p) ==
  /\ txn[p].pc = "commit"
  /\ friends' = friends \cup txn[p].writes
  /\ txn' = [txn EXCEPT ![p].pc = "done", ![p].writes = {},
                        ![p].requester = NULL]
  /\ UNCHANGED <<users, expenses, nextUuid, last, now, http, server, req, pool, sqlite>>

\* Faulty variant: the rows the transaction wrote stay in the table.
rollbackKeepsWrites(fr, writes) ==
  fr \cup writes

\* ROLLBACK: the committed rows stay, the rows the transaction wrote go
rollbackQuery(fr, writes) ==
  fr

\* catch: await client.query('ROLLBACK'); throw error
Rollback(p) ==
  /\ txn[p].pc = "rollback"
  /\ friends' = rollbackQuery(friends, txn[p].writes)
  /\ txn' = [txn EXCEPT ![p].pc = "done", ![p].writes = {},
                        ![p].requester = NULL, ![p].id = 0]
  /\ UNCHANGED <<users, expenses, nextUuid, last, now, http, server, req, pool, sqlite>>

NextConc ==
  \/ \E p \in Procs, r \in UserIds, a \in UserIds : Begin(p, r, a)
  \/ \E p \in Procs : GetRequester(p)
  \/ \E p \in Procs : GetAddressee(p)
  \/ \E p \in Procs : Existing(p)
  \/ \E p \in Procs : Insert(p)
  \/ \E p \in Procs : Commit(p)
  \/ \E p \in Procs : Rollback(p)

SpecConc == Init /\ [][NextConc]_vars

\* ------------------------------------------ the specification with faults
\* The steps of sendFriendRequest and of respondToFriendRequest, each of
\* whose queries may throw.  respondToFriendRequest opens no transaction:
\* its SELECT and its UPDATE are statements of their own.

StoreFault == "Connection terminated unexpectedly"

\* respondToFriendRequest up to its first await: the check of the action
BeginRespond(p, friendshipId, userId, action) ==
  /\ txn[p].pc \in {"idle", "done"}
  /\ txn' = [txn EXCEPT ![p] =
       IF action \notin {"accept", "reject"}
         THEN [IdleTxn EXCEPT !.pc = "done", !.error = "Invalid action"]
         ELSE [IdleTxn EXCEPT !.pc = "find", !.id = friendshipId,
                              !.userId = userId, !.action = action]]
  /\ UNCHANGED <<users, friends, expenses, nextUuid, last, now, http, server, req, pool, sqlite>>

\* const findResult = await client.query(findQuery, ...) and the check of
\* its rows
Find(p) ==
  /\ txn[p].pc = "find"
  /\ txn' = [txn EXCEPT ![p] =
       IF findQuery(friends, txn[p].id, txn[p].userId) = {}
         THEN [IdleTxn EXCEPT !.pc = "done",
                              !.error = "Friend request not found"]
         ELSE [@ EXCEPT !.pc = "update"]]
  /\ UNCHANGED <<users, friends, expenses, nextUuid, last, now, http, server, req, pool, sqlite>>

\* const result = await client.query(updateQuery, ...); return result.rows[0]
Update(p) ==
  /\ txn[p].pc = "update"
  /\ friends' = updateQuery(friends, newStatus(txn[p].action), txn[p].id, now)
  /\ txn' = [txn EXCEPT ![p] = [IdleTxn EXCEPT !.pc = "done"]]
  /\ UNCHANGED <<users, expenses, nextUuid, last, now, http, server, req, pool, sqlite>>

\* The query the caller waits for throws: inside the transaction of
\* sendFriendRequest the catch block rolls back, in respondToFriendRequest
\* the error is rethrown at once.  A statement that throws has written
\* nothing, and a COMMIT that throws has committed nothing.
Fault(p) ==
  /\ txn[p].pc \in {"getRequester", "getAddressee", "existing", "insert",
                    "commit", "find", "update"}
  /\ txn' = [txn EXCEPT ![p] =
       IF txn[p].pc \in {"find", "update"}
         THEN [IdleTxn EXCEPT !.pc = "done", !.error = StoreFault]
         ELSE [@ EXCEPT !.pc = "rollback", !.error = StoreFault]]
  /\ UNCHANGED <<users, friends, expenses, nextUuid, last, now, http, server, req, pool, sqlite>>

\* one caller makes the calls of SpecFault, one after the other
FaultProcs == {"p1"}

NextFault ==
  \/ \E p \in FaultProcs, r \in UserIds, a \in UserIds : Begin(p, r, a)
  \/ \E p \in FaultProcs : GetRequester(p)
  \/ \E p \in FaultProcs : GetAddressee(p)
  \/ \E p \in FaultProcs : Existing(p)
  \/ \E p \in FaultProcs : Insert(p)
  \/ \E p \in FaultProcs : Commit(p)
  \/ \E p \in FaultProcs : Rollback(p)
  \/ \E p \in FaultProcs, id \in FriendshipIds, u \in UserIds, act \in Actions :
       BeginRespond(p, id, u, act)
  \/ \E p \in FaultProcs : Find(p)
  \/ \E p \in FaultProcs : Update(p)
  \/ \E p \in FaultProcs : Fault(p)

SpecFault == Init /\ [][NextFault]_vars

\* ------------------------------------------------------------ properties

\* the unordered pair a friends row relates
PairOf(f) == {f.requester_id, f.addressee_id}

SelfRequestMessage == "Cannot send friend request to yourself"
ConflictMessage == "Friend request already exists"

\* C1: after any sequence of whole sendFriendRequest and
\* respondToFriendRequest calls the store holds at most one friends row per
\* unordered pair of users.
C1_OneRecordPerPair ==
  \A r1 \in friends, r2 \in friends : PairOf(r1) = PairOf(r2) => r1 = r2

\* C1 witness: a request in the direction opposite to an existing row was
\* made and refused.
C1_Witness ==
  /\ last.op = "sendFriendRequest"
  /\ last.error = ConflictMessage
  /\ \E f \in friends : /\ f.requester_id = last.addresseeId
                        /\ f.addressee_id = last.requesterId

\* C2: of two sendFriendRequest calls for the same unordered pair whose
\* statements interleave, at most one succeeds, so two callers never both
\* hold a successful result for one pair.
C2_AtMostOneConcurrentSuccess ==
  \A p \in Procs, q \in Procs :
    ( /\ p # q
      /\ txn[p].pc = "done" /\ txn[p].error = NoError
      /\ txn[q].pc = "done" /\ txn[q].error = NoError )
    => {txn[p].requesterId, txn[p].addresseeId}
         # {txn[q].requesterId, txn[q].addresseeId}

\* C3: a row that is accepted or rejected is never changed again: every
\* step leaves each such row in the table as it is.
C3_TerminalStatus ==
  [][\A f \in friends : f.status \in {"accepted", "rejected"} => f \in friends']_vars

\* C4: getFriendStats returns the friend's statistics exactly when an
\* accepted row relates the two users; otherwise it throws 'Not friends with
\* this user' and returns nothing.
C4_StatsOnlyForAccepted ==
  last.op = "getFriendStats" =>
    IF \E f \in friends : /\ f.status = "accepted"
                          /\ PairOf(f) = {last.friendId, last.currentUserId}
      THEN /\ last.error = NoError
           /\ last.stats = {friendStats({ e \in expenses : e.user_id = last.friendId })}
      ELSE /\ last.error = "Not friends with this user"
           /\ last.stats = {}

\* C4 witness: the stats of a user were asked for by the other party of a
\* row that is pending or rejected, and refused.
C4_Witness ==
  /\ last.op = "getFriendStats"
  /\ last.error = "Not friends with this user"
  /\ \E f \in friends : /\ f.status \in {"pending", "rejected"}
                        /\ f.requester_id = last.friendId
                        /\ f.addressee_id = last.currentUserId

\* C5: a respondToFriendRequest call with a valid action succeeds when the
\* row exists and the responder is its addressee; in every other case it
\* throws 'Friend request not found' and changes no row.
C5_RespondOnlyByAddressee ==
  [][ ( /\ last'.op = "respondToFriendRequest"
        /\ last'.action \in {"accept", "reject"} )
      => IF \E f \in friends : /\ f.id = last'.friendshipId
                               /\ f.addressee_id = last'.userId
           THEN last'.error = NoError
           ELSE /\ last'.error = "Friend request not found"
                /\ friends' = friends ]_vars

\* C5 witness: the requester of a row tried to respond to it and was refused.
C5_Witness ==
  /\ last.op = "respondToFriendRequest"
  /\ last.error = "Friend request not found"
  /\ \E f \in friends : f.id = last.friendshipId /\ f.requester_id = last.userId

\* C6: once a row relates two users, every sendFriendRequest between them,
\* in either direction and whatever the row's status, throws 'Friend request
\* already exists' and creates no row.
C6_ConflictAfterRequest ==
  [][ ( /\ last'.op = "sendFriendRequest"
        /\ \E f \in friends : PairOf(f) = {last'.requesterId, last'.addresseeId} )
      => /\ last'.error = ConflictMessage
         /\ friends' = friends ]_vars

\* C6 witness: a request between the two users of a rejected row was refused.
C6_Witness ==
  /\ last.op = "sendFriendRequest"
  /\ last.error = ConflictMessage
  /\ \E f \in friends : /\ f.status = "rejected"
                        /\ PairOf(f) = {last.requesterId, last.addresseeId}

\* C7: once a row is rejected, its two users never again appear in each
\* other's getFriends result.
C7_RejectedNeverFriends ==
  [][ \A f \in friends : f.status = "rejected" =>
        /\ f.addressee_id \notin
             { row.id : row \in getFriends(users', friends', f.requester_id) }
        /\ f.requester_id \notin
             { row.id : row \in getFriends(users', friends', f.addressee_id) } ]_vars

\* C8 as stated: sendFriendRequest(A, A) throws 'Cannot send friend request
\* to yourself' for every id A, whether or not A is a user.
C8_SelfRequestAlwaysInvalid ==
  (last.op = "sendFriendRequest" /\ last.requesterId = last.addresseeId)
    => last.error = SelfRequestMessage

\* C8 amended: sendFriendRequest(A, A) creates no row; it throws 'Cannot
\* send friend request to yourself' when A is a user and 'User not found'
\* when A is not.
C8_SelfRequestRejected ==
  [][ (last'.op = "sendFriendRequest" /\ last'.requesterId = last'.addresseeId)
      => /\ last'.error = IF last'.requesterId \in users
                            THEN SelfRequestMessage ELSE "User not found"
         /\ friends' = friends ]_vars

\* C8 witness: a user sent a request to themselves and got the self-request
\* error.
C8_Witness ==
  /\ last.op = "sendFriendRequest"
  /\ last.requesterId = last.addresseeId
  /\ last.requesterId \in users
  /\ last.error = SelfRequestMessage

\* C9: sendFriendRequest throws 'User not found' whenever one of the two ids
\* is not a user, and both ids of every friends row are users.
C9_UsersExist ==
  /\ ( /\ last.op = "sendFriendRequest"
       /\ (last.requesterId \notin users \/ last.addresseeId \notin users) )
     => last.error = "User not found"
  /\ \A f \in friends : f.requester_id \in users /\ f.addressee_id \in users

\* C9 witness: a user sent a request to an id that is no user, with rows
\* already in the table.
C9_Witness ==
  /\ last.op = "sendFriendRequest"
  /\ last.error = "User not found"
  /\ last.requesterId \in users
  /\ last.addresseeId \notin users
  /\ friends # {}

\* C10: no friends row relates a user to themselves.
C10_NoSelfFriendship ==
  \A f \in friends : f.requester_id # f.addressee_id

\* C10 witness: a user who is already party to a row sent a request to
\* themselves.
C10_Witness ==
  /\ last.op = "sendFriendRequest"
  /\ last.requesterId = last.addresseeId
  /\ \E f \in friends : last.requesterId \in PairOf(f)

\* the users the friend list of u shows
listedFriends(u) == { r.id : r \in getFriends(users, friends, u) }

\* C11: the friend list of u shows v exactly when an accepted record relates
\* u and v in either direction; it shows the other party and never u, it is
\* symmetric, and no pending or rejected record appears in it.
C11_FriendsListExact ==
  \A u \in UserIds :
    /\ \A v \in UserIds :
         /\ v \in listedFriends(u) <=>
              \E f \in friends :
                /\ f.status = "accepted"
                /\ \/ (f.requester_id = u /\ f.addressee_id = v)
                   \/ (f.requester_id = v /\ f.addressee_id = u)
         /\ v \in listedFriends(u) <=> u \in listedFriends(v)
    /\ u \notin listedFriends(u)
    /\ \A r \in getFriends(users, friends, u) :
         \E f \in friends :
           f.id = r.friendship_id /\ f.status = "accepted" /\ r.status = "accepted"
    /\ (last.op = "getFriends" /\ last.userId = u) =>
         last.rows = getFriends(users, friends, u)

\* a friend list was returned that shows a friend while the caller also has
\* a record that is not accepted
C11_Witness ==
  /\ last.op = "getFriends"
  /\ last.rows # {}
  /\ \E f \in friends : last.userId \in PairOf(f) /\ f.status # "accepted"

\* C12: the pending list of u holds exactly the records with addressee u and
\* status pending, each with the requester as profile; a request u sent never
\* appears in it, and a record answered with accept or reject is in no
\* pending list afterwards.
C12_PendingIncomingExact ==
  /\ \A u \in UserIds :
       LET rows == getPendingFriendRequests(users, friends, u)
       IN  /\ { r.friendship_id : r \in rows } =
                { f.id : f \in { g \in friends : /\ g.addressee_id = u
                                                 /\ g.status = "pending" } }
           /\ \A r \in rows :
                \E f \in friends : /\ f.id = r.friendship_id
                                   /\ r.id = f.requester_id
                                   /\ f.requester_id # u
           /\ (last.op = "getPendingFriendRequests" /\ last.userId = u) =>
                last.rows = rows
  /\ (last.op = "respondToFriendRequest" /\ last.error = NoError) =>
       \A u \in UserIds :
         \A r \in getPendingFriendRequests(users, friends, u) :
           r.friendship_id # last.friendshipId

\* a pending list was returned that is not empty while the caller also has
\* a pending request of their own
C12_Witness ==
  /\ last.op = "getPendingFriendRequests"
  /\ last.rows # {}
  /\ \E f \in friends : f.requester_id = last.userId /\ f.status = "pending"

\* the rows the expenses table can hold for the users of the store
ExpenseUniverse ==
  SeedExpenses \cup
    { ExpenseRow(id, u, c, amt) :
        id \in (Cardinality(SeedExpenses) + 1)..MaxExpenses, u \in users,
        c \in Categories \cup {"General"}, amt \in Amounts }

\* C13: the statistics a successful getFriendStats call returned are
\* computed from the expenses of friendId alone: over the same friends rows,
\* every expenses table that holds the same rows of friendId gives the same
\* result, whatever rows of other users it holds.
C13_StatsOnlyFromFriend ==
  (last.op = "getFriendStats" /\ last.error = NoError) =>
    LET ofFriend == { e \in expenses : e.user_id = last.friendId }
    IN  \A others \in SUBSET { e \in ExpenseUniverse :
                                 e.user_id # last.friendId } :
          last.stats = getFriendStats(friends, ofFriend \cup others,
                                      last.friendId, last.currentUserId)

\* statistics were returned for a friend who has expenses while another
\* user has expenses too
C13_Witness ==
  /\ last.op = "getFriendStats"
  /\ last.error = NoError
  /\ \E st \in last.stats : st.totalExpenses > 0
  /\ \E e \in expenses : e.user_id # last.friendId

\* the kinds of failure the friend calls throw
NotFoundMessages == {"User not found", "Friend request not found"}
InvalidOperationMessages ==
  {"Cannot send friend request to yourself", "Invalid action"}
ConflictMessages == {"Friend request already exists"}
ForbiddenMessages == {"Not friends with this user"}

\* C14: a friend call that fails is answered with status 404 when the failure
\* is NotFound, 400 when it is InvalidOperation or Conflict, 403 when it is
\* Forbidden, and 500 for any other failure of the store.
C14_HttpStatusMapping ==
  (/\ last.op \in {"sendFriendRequest", "respondToFriendRequest",
                   "getFriendStats"}
   /\ last.error # NoError) =>
     http.status =
       IF last.error \in NotFoundMessages THEN 404
       ELSE IF last.error \in InvalidOperationMessages \cup ConflictMessages
         THEN 400
       ELSE IF last.error \in ForbiddenMessages THEN 403
       ELSE 500

\* C16: a sendFriendRequest call that succeeds adds exactly one row, from
\* the requester to the addressee, pending, under an id no row had; it
\* returns that id with status pending and leaves every other row as it was.
C16_SendAddsOneRecord ==
  [][(last'.op = "sendFriendRequest" /\ last'.error = NoError) =>
       /\ friends \subseteq friends'
       /\ Cardinality(friends' \ friends) = 1
       /\ \A row \in friends' \ friends :
            /\ row.id \notin { f.id : f \in friends }
            /\ row.requester_id = last'.requesterId
            /\ row.addressee_id = last'.addresseeId
            /\ row.status = "pending"
            /\ row.created_at = now /\ row.updated_at = now
            /\ last'.id = row.id
            /\ last'.status = "pending"]_vars

\* a request succeeded while the store already held a row, which is still
\* there beside the new one
C16_Witness ==
  /\ last.op = "sendFriendRequest"
  /\ last.error = NoError
  /\ \E f \in friends, g \in friends :
       /\ f.id = last.id
       /\ f.requester_id = last.requesterId
       /\ g.id # f.id

\* C17: a respondToFriendRequest call whose action is neither accept nor
\* reject fails with 'Invalid action' whatever the id and the responder
\* are, and changes no row.
C17_InvalidActionRejected ==
  [][(/\ last'.op = "respondToFriendRequest"
      /\ last'.action \notin {"accept", "reject"}) =>
        /\ last'.error = "Invalid action"
        /\ friends' = friends]_vars

\* an unknown action was refused with 'Invalid action' in a call whose id
\* and responder the lookup would not have found
C17_Witness ==
  /\ last.op = "respondToFriendRequest"
  /\ last.action = "block"
  /\ last.error = "Invalid action"
  /\ findQuery(friends, last.friendshipId, last.userId) = {}
  /\ friends # {}

TerminalStatuses == {"accepted", "rejected"}

\* C18: a response by the addressee to a record that is already accepted or
\* rejected succeeds, sets the status the new action asks for and stamps
\* updated_at with the time of the call; a status changes in no other way,
\* so the status a record ends with is that of the last response that
\* succeeded.
C18_ResponseOverwritesTerminal ==
  [][(now' = now) =>
      /\ \A f \in friends :
           (/\ f.status \in TerminalStatuses
            /\ last'.op = "respondToFriendRequest"
            /\ last'.friendshipId = f.id
            /\ last'.userId = f.addressee_id
            /\ last'.action \in {"accept", "reject"}) =>
              /\ last'.error = NoError
              /\ \E g \in friends' :
                   /\ g.id = f.id
                   /\ g.status = IF last'.action = "accept" THEN "accepted"
                                                            ELSE "rejected"
                   /\ g.updated_at = now
      /\ \A f \in friends, g \in friends' :
           (f.id = g.id /\ f.status # g.status) =>
              /\ last'.op = "respondToFriendRequest"
              /\ last'.error = NoError
              /\ last'.friendshipId = f.id
              /\ g.status = IF last'.action = "accept" THEN "accepted"
                                                       ELSE "rejected"]_vars

\* a response succeeded on a record that was accepted or rejected, gave it
\* the other status and a later updated_at
C18_Witness ==
  /\ last.op = "respondToFriendRequest"
  /\ last.error = NoError
  /\ last.findResult \cap TerminalStatuses # {}
  /\ last.status \notin last.findResult
  /\ \E f \in friends : /\ f.id = last.friendshipId
                         /\ f.status = last.status
                         /\ f.updated_at > f.created_at

\* C19: updated_at of a record changes only in a step in which its status
\* changes value as well.
C19_UpdatedAtOnlyWithStatus ==
  [][\A f \in friends, g \in friends' :
       (f.id = g.id /\ g.updated_at # f.updated_at) => g.status # f.status]_vars

\* C20: no step deletes a row or changes its id, requester_id, addressee_id
\* or created_at: every row is still there afterwards with those columns as
\* they were, so the set of ids only grows and a rejected row stays.
C20_RecordsPersist ==
  [][\A f \in friends :
       \E g \in friends' : /\ g.id = f.id
                           /\ g.requester_id = f.requester_id
                           /\ g.addressee_id = f.addressee_id
                           /\ g.created_at = f.created_at]_vars

\* a row was rejected some time after it was created and is still there,
\* beside a second row created later
C20_Witness ==
  /\ last.op = "respondToFriendRequest"
  /\ last.error = NoError
  /\ \E f \in friends, g \in friends :
       /\ f.id = last.friendshipId
       /\ f.status = "rejected"
       /\ f.updated_at > f.created_at
       /\ g.id # f.id
       /\ g.created_at > f.created_at

\* C15: a sendFriendRequest or respondToFriendRequest call that fails, by a
\* check or by a query that throws at any step, the INSERT included, leaves
\* the friends rows as they were: the rows change only in the step that
\* completes a call without error, and never in a step that ends a call
\* with an error.
C15_FailureLeavesRecords ==
  [][/\ (friends' # friends) =>
          \E p \in Procs : /\ txn[p].pc # "done"
                           /\ txn'[p].pc = "done"
                           /\ txn'[p].error = NoError
     /\ \A q \in Procs :
          (txn[q].pc # "done" /\ txn'[q].pc = "done"
             /\ txn'[q].error # NoError) => friends' = friends]_vars

\* a call whose INSERT had been made ended with the fault thrown by a later
\* query, and the table holds no row
C15_Witness ==
  /\ friends = {}
  /\ nextUuid > 1
  /\ \E p \in Procs : txn[p].pc = "done" /\ txn[p].error = StoreFault

\* string holds term as a run of consecutive characters, whatever the case
Contains(string, term) ==
  \E i \in 0..(Len(string) - Len(term)) :
    \A j \in 1..Len(term) : Lower(string[i + j]) = Lower(term[j])

\* C21: for every term, caller and limit a searchUsers call returns at most
\* limit users, never the caller, and only users whose username or display
\* name contains the term.
C21_SearchContract ==
  (last.op = "searchUsers" /\ last.error = NoError) =>
    /\ Cardinality(last.users) <= last.limit
    /\ last.userId \notin last.users
    /\ \A u \in last.users :
         \/ Contains(Profile(u).username, last.term)
         \/ Contains(Profile(u).display_name, last.term)

\* C22: once initializeDatabase has returned false after attempts that all
\* failed, every request under /api/* is answered 503 'Database not
\* available' by the middleware, and /health reports the database as
\* disconnected.
C22_UnavailableAfterFailure ==
  (server.result = "false" /\ server.attempts > 0) =>
    /\ last.op \in {"/api/*", "GET /api/friends", "getFriends"} =>
         (last.op = "/api/*" /\ http.status = 503)
    /\ last.op = "GET /health" => last.database = "disconnected"

\* what holds of the counters of initializeDatabase at every moment
AttemptsBounded ==
  /\ server.attempts <= server.retries
  /\ server.result = "true" =>
       /\ server.failures = server.attempts - 1
       /\ server.waits = server.failures
  /\ server.result = "false" =>
       /\ server.attempts = server.retries
       /\ server.failures = server.retries
       /\ server.retries > 0 => server.waits = server.retries - 1

\* C23: initializeDatabase terminates; it makes at most retries attempts and
\* none after the first that succeeds, returns true exactly when an attempt
\* succeeded and false after exactly retries failures, and waits after
\* every failure but the last.
C23_InitializeTerminates ==
  /\ []AttemptsBounded
  /\ [][server.result # "none" => server'.attempts = server.attempts]_vars
  /\ <>(server.result # "none")

\* initializeDatabase gave up after five failures and four waits
C23_Witness ==
  /\ server.result = "false"
  /\ server.attempts = DefaultRetries
  /\ server.failures = DefaultRetries
  /\ server.waits = DefaultRetries - 1

\* C24: the server listens only after initializeDatabase has returned, it
\* does come to listen whether that returned true or false, and no request
\* is answered before it listens.
C24_ListenAfterInitialize ==
  /\ [](server.listening => server.result # "none")
  /\ []((last.op # "init" \/ http.status # 0) => server.listening)
  /\ (server.result = "true") ~> server.listening
  /\ (server.result = "false") ~> server.listening

\* the server answers a request although every attempt failed
C24_Witness ==
  /\ server.listening
  /\ server.result = "false"
  /\ server.attempts > 0
  /\ http.status # 0

\* the header of the request shows a token
ShowsToken(request) ==
  Len(request.header) >= 2 /\ request.header[2] # NoToken

\* the header of the request shows a token made by createToken that has not
\* expired
ShowsValidToken(request) ==
  /\ ShowsToken(request)
  /\ request.header[2].secret = JwtSecret
  /\ ~request.header[2].expired

\* C25: authenticateToken answers 401 to a request without a token and 403
\* to one whose token does not verify, and calls next() for neither; for a
\* token that verifies it sets req.userId to the user the token was made for
\* and calls next() once.  A handler runs only for a request whose token
\* verified.
C25_OnlyVerifiedReachHandler ==
  [][/\ last'.op = "authenticateToken" =>
          /\ ~ShowsToken(req') =>
               (http'.status = 401 /\ req'.nextCalls = 0)
          /\ (ShowsToken(req') /\ ~ShowsValidToken(req')) =>
               (http'.status = 403 /\ req'.nextCalls = 0)
          /\ ShowsValidToken(req') =>
               /\ req'.userId = req'.header[2].userId
               /\ req'.nextCalls = 1
               /\ http'.status = 0
     /\ last'.op # "authenticateToken" =>
          (ShowsValidToken(req) /\ req.nextCalls = 1 /\ req' = req)]_vars

\* the handler answered a request whose token verified
C25_Witness ==
  /\ ShowsValidToken(req)
  /\ req.nextCalls = 1
  /\ last.op = "sendFriendRequest"
  /\ http.status = 201

\* C26: through the routes the requester of every friends row created is
\* the user the token of the request was made for, every response is made
\* as that user and changes only a row addressed to that user, whatever
\* ids the request body holds.
C26_CallerIsTokenUser ==
  [][(last'.op \in {"sendFriendRequest", "respondToFriendRequest"}) =>
       /\ ShowsValidToken(req)
       /\ \A row \in friends' \ friends :
            \/ row.requester_id = req.header[2].userId
            \/ \E f \in friends : f.id = row.id
       /\ \A f \in friends, g \in friends' :
            (f.id = g.id /\ f # g) => f.addressee_id = req.header[2].userId
       /\ last'.op = "sendFriendRequest" =>
            last'.requesterId = req.header[2].userId
       /\ last'.op = "respondToFriendRequest" =>
            last'.userId = req.header[2].userId]_vars

\* a friends row was created for the user of the token while the body of
\* the request named another user as requester
C26_Witness ==
  /\ last.op = "sendFriendRequest"
  /\ last.error = NoError
  /\ req.body.requesterId # last.requesterId
  /\ \E f \in friends : /\ f.id = last.id
                         /\ f.requester_id = req.header[2].userId

\* C27: updateExpense(id, expense, userId) and deleteExpense(id, userId), called
\* by the PUT and DELETE routes, touch a row only when the expense with that id
\* is owned by userId, and then only that row; in every other case the call
\* fails with 'Expense not found', the route answers 404 and the expenses
\* table is unchanged.
C27_OnlyOwnerChangesExpense ==
  [][(last'.op \in {"updateExpense", "deleteExpense"}) =>
       LET owned == { e \in expenses : e.id = last'.id /\ e.user_id = last'.userId }
       IN  IF owned = {}
             THEN /\ last'.error = "Expense not found"
                  /\ http' = Response(404, "Expense not found")
                  /\ expenses' = expenses
             ELSE /\ last'.error = NoError
                  /\ http'.status = 200
                  /\ expenses \ owned = expenses' \ { e \in expenses' : e.id = last'.id }
                  /\ \A e \in expenses' : e.id = last'.id => e.user_id = last'.userId
                  /\ last'.op = "deleteExpense" =>
                        ~\E e \in expenses' : e.id = last'.id]_vars

\* a user asked to delete an expense of another user: 404, the row is kept
C27_Witness ==
  /\ last.op = "deleteExpense"
  /\ last.error = "Expense not found"
  /\ http.status = 404
  /\ \E e \in expenses : e.id = last.id /\ e.user_id # last.userId

\* a caller waits in pool.connect()
WaitsForClient(c) == pool[c].pc \in {"connect", "requester", "addressee"}

\* C28: concurrent sendFriendRequest calls never come to a state where no
\* client is idle and every caller in a call waits for a client, so that
\* the clients are all held by callers that wait themselves.
C28_NeverAllWaiting ==
  ~ /\ idleClients(pool) = 0
    /\ \E c \in PoolCallers : pool[c].op = "sendFriendRequest" /\ pool[c].held > 0
    /\ \A c \in PoolCallers :
         pool[c].pc # "idle" => /\ WaitsForClient(c)
                                /\ pool[c].op = "sendFriendRequest"

\* C29: every friendship operation releases each client it acquired exactly
\* once on every exit path: a caller never holds more or fewer clients than
\* it acquired and has not released, a call ends holding none with as many
\* releases as acquisitions, and when no call is in flight no client is
\* checked out.
C29_ReleasedExactlyOnce ==
  /\ \A c \in PoolCallers :
       /\ pool[c].held = pool[c].acquired - pool[c].released
       /\ pool[c].held \in 0..2
       /\ pool[c].pc = "idle" => pool[c].held = 0
  /\ (\A c \in PoolCallers : pool[c].pc = "idle") =>
       checkedOut(pool, PoolCallers) = 0

\* a sendFriendRequest call ended with an error after it had acquired its
\* transaction client and one for getUserById, and no call is in flight
C29_Witness ==
  /\ \A c \in PoolCallers : pool[c].pc = "idle"
  /\ \E c \in PoolCallers :
       /\ pool[c].op = "sendFriendRequest"
       /\ pool[c].error # NoError
       /\ pool[c].acquired = 2
       /\ pool[c].released = 2
  /\ \E c \in PoolCallers :
       /\ pool[c].op = "getFriendStats"
       /\ pool[c].error = NoError
       /\ pool[c].released = 1

\* the (requesterId, addresseeId, status) records of a friends table
Records(fr) ==
  { <<f.requester_id, f.addressee_id, f.status>> : f \in fr }

\* C30: fed the same calls of sendFriendRequest, respondToFriendRequest,
\* getFriends and getPendingFriendRequests from the same users, the SQLite
\* and the PostgreSQL store give every call the same outcome, success with
\* the same result or the same error message, and hold the same
\* (requesterId, addresseeId, status) records after it.
C30_StoresEquivalent ==
  /\ sqlite.last.op = last.op
  /\ sqlite.last.error = last.error
  /\ Records(sqlite.friends) = Records(friends)
  /\ last.op \in {"sendFriendRequest", "respondToFriendRequest"} =>
       sqlite.last.status = last.status
  /\ last.op \in {"getFriends", "getPendingFriendRequests"} =>
       { <<r.id, r.status>> : r \in sqlite.last.rows } =
         { <<r.id, r.status>> : r \in last.rows }

\* both stores hold a rejected request, and a request in the other
\* direction has failed in both
C30_Witness ==
  /\ last.op = "sendFriendRequest"
  /\ last.error = "Friend request already exists"
  /\ sqlite.last.error = "Friend request already exists"
  /\ \E f \in sqlite.friends :
       /\ f.status = "rejected"
       /\ f.requester_id = last.addresseeId
       /\ f.addressee_id = last.requesterId

====
